---- MODULE Spec2Model ----
(***************************************************************************)
(* Model of solana-rpc: the ordered prefetching block stream (BlockStream  *)
(* in index.js), the HTTP request transport (SolanaRPC.api / _url) and the *)
(* duplex channel (HubSocket).                                             *)
(*                                                                         *)
(* The three parts do not share state, so each has its own specification:  *)
(* SpecStream, SpecApi and SpecSock.                                       *)
(***************************************************************************)
EXTENDS Integers, Sequences, FiniteSets, TLC

(***************************************************************************)
(* Bounds of the model.                                                    *)
(***************************************************************************)
MaxStart == 2    \* largest opts.start
MaxEnd == 3      \* largest explicit opts.end
MaxTip == 3      \* largest slot the remote tip reaches
MaxPrefetch == 2 \* largest opts.prefetch
MaxUrls == 3     \* largest number of endpoints of one transport
MaxRequests == 4 \* api() calls made over one behaviour
MaxCalls == 3    \* calls the user makes on one SolanaRPC object and its channel
MaxMessages == 3 \* frames the remote side delivers over one behaviour
MaxSlot == 4     \* largest start and end given to getBlocks

VARIABLES
  \* ---- BlockStream fields (index.js 491-506)
  start,        \* this.start: the cursor, next slot to consume
  end,          \* this.end: -1 when there is no fixed end
  length,       \* this.length: last-known tip
  snapshot,     \* this.snapshot
  live,         \* this.live
  concurrency,  \* this.concurrency: the window (opts.prefetch)
  inflight,     \* this.inflight: the keys of the prefetch cache
  \* ---- the stream's asynchronous context
  spc,          \* where the generator _stream is suspended
  slot,         \* local `slot` of the _readp call that is awaiting its block
  fetch,        \* outcome of the fetch promise launched for each slot
  tip,          \* the remote tip, answered by getSlot
  out,          \* records the generator has yielded, in order
  serr,         \* error the generator raised ("" when none)
  \* ---- history
  startOpt,     \* opts.start
  endOpt,       \* opts.end (-1 when absent)
  jitter,       \* a fetch settled while the fetch of a lower slot was pending
  polled,       \* the live-wait loop: tip is what its last poll returned when
                \* no sleep has followed it (-1 otherwise), again that this
                \* poll returned what the poll before it had, with no sleep
                \* between the two
  refetched     \* the slots for which a fetch was launched more than once

streamVars == <<start, end, length, snapshot, live, concurrency, inflight,
                spc, slot, fetch, tip, out, serr, startOpt, endOpt, jitter,
                polled, refetched>>

VARIABLES
  \* ---- SolanaRPC fields (index.js 26-36)
  urls,         \* this.urls: the endpoints, numbered from 0
  _urlIndex,    \* this._urlIndex: the endpoint cursor
  \* ---- the api() calls
  calls,        \* per caller: the state of its api() call
  used,         \* history: the endpoint of every network attempt, in issue order
  started,      \* history: api() calls made so far
  overlap       \* history: some api() call started while another was running

apiVars == <<urls, _urlIndex, calls, used, started, overlap>>

VARIABLES
  \* ---- HubSocket fields (lib/hub-socket.js constructor)
  ws,             \* this.ws: 0 for null, else the number of a socket
  _connecting,    \* this._connecting: 0 for null, else a connection attempt
  _disconnecting, \* this._disconnecting: 0 for null, else a teardown
  _connected,     \* this._connected
  _keepAlive,     \* this._keepAlive holds an interval handle
  \* ---- the channel's environment and asynchronous contexts
  socks,          \* the WebSocket objects created: readyState, internal listeners on it
  timers,         \* keepalive intervals that are running
  conns,          \* the _connect() runs
  discs,          \* the _disconnect() runs
  waits,          \* the waitForMessage() promises
  delivered,      \* history: the number of messages the channel emitted
  badUrl          \* the WebSocket constructor throws for this._url

sockVars == <<ws, _connecting, _disconnecting, _connected, _keepAlive, socks,
              timers, conns, discs, waits, delivered, badUrl>>

VARIABLES
  \* ---- SolanaRPC fields used over the channel (index.js 26-36)
  id,             \* this.id: the next message identifier
  _subscriptions, \* this._subscriptions: per identifier, the onAccountChange
                  \* call whose onMessage it holds (0 when it has no entry)
  \* ---- the calls made on the SolanaRPC object
  issued,         \* history: the identifiers handed out, in order
  sent,           \* the send() and request() calls
  subs,           \* the onAccountChange() calls
  unsubs          \* the accountUnsubscribe() calls

rpcVars == <<id, _subscriptions, issued, sent, subs, unsubs>>

VARIABLES
  \* ---- one getBlocks(start, end) call (index.js 92-104)
  getBlocks       \* its arguments, the getBlock requests it made in order
                  \* (reqs), how each has settled, and how the call ended

blocksVars == <<getBlocks>>

vars == <<streamVars, apiVars, sockVars, rpcVars, blocksVars>>

notStream == <<apiVars, sockVars, rpcVars, blocksVars>>
notApi == <<streamVars, sockVars, rpcVars, blocksVars>>
notSock == <<streamVars, apiVars, rpcVars, blocksVars>>
notRpc == <<streamVars, apiVars, blocksVars>>
notBlocks == <<streamVars, apiVars, sockVars, _subscriptions, sent, subs, unsubs>>

Min(a, b) == IF a < b THEN a ELSE b

(***************************************************************************)
(* BlockStream                                                             *)
(***************************************************************************)

\* Outcomes of one fetch promise, getBlock(slot).then(b => b || solana.getBlock(slot)):
\* a block, an empty result, a rejection with the 'was skipped, or missing'
\* message, or any other rejection.
Outcomes == {"ok", "empty", "skipped", "error"}

BlockRecord(s, sl) == [kind |-> "block", block |-> s, slot |-> sl]
MissingRecord == [kind |-> "missing", block |-> -1, slot |-> -1]

\* A prefetch that is not limited by the window.
PrefetchMaxNoWindow(e, len, w) == IF e = -1 THEN len ELSE e

\* _maybePrefetch: const max = Math.min(this.end === -1 ? this.length : this.end, this.concurrency)
PrefetchMax(e, len, w) == Min(IF e = -1 THEN len ELSE e, w)

\* A prefetch that does not look into the cache.
PrefetchSlotsUncached(st, e, len, w, infl) ==
  st..(st + PrefetchMax(e, len, w) - 1)

\* _maybePrefetch: the slots start+i, 0 <= i < max, that are not cached.
\* (`this.inflight.length` is undefined on a Map, so the early return never fires.)
PrefetchSlots(st, e, len, w, infl) ==
  {s \in st..(st + PrefetchMax(e, len, w) - 1) : s \notin infl}

\* The slots of S for which f already holds a fetch.
Again(f, S) == S \cap DOMAIN f

\* _getBlockWithCache, fetch branch: a new pending promise for every slot of S.
Launch(f, S) == [s \in (DOMAIN f) \cup S |-> IF s \in S THEN "pending" ELSE f[s]]

\* _readp: const end = this.live ? -1 : (this.end === -1 ? this.length : this.end)
EffectiveEnd(lv, e, len) == IF lv THEN -1 ELSE IF e = -1 THEN len ELSE e

\* The bound check letting the cursor reach the end before it stops.
ReachedEndPastEnd(st, e) == e >= 0 /\ st > e

\* _readp: if (end >= 0 && this.start >= end) return -1
ReachedEnd(st, e) == e >= 0 /\ st >= e

\* _readp: const slot = this.start++
NextCursor(st) == st + 1

\* No poll of the running live-wait loop is waiting to be followed up.
NoPoll == [tip |-> -1, again |-> FALSE]

\* The synchronous run of _readp from the head of its live-wait loop, with
\* this.length = len and this.end = e, up to its next await or its return.
ReadpBody(len, e) ==
  /\ length' = len
  /\ end' = e
  /\ IF live /\ start > len
       THEN \* await this.solana.getSlot()
            /\ spc' = "polling"
            /\ UNCHANGED <<start, inflight, fetch, slot, refetched>>
       ELSE IF ReachedEnd(start, EffectiveEnd(live, e, len))
         THEN \* return -1: the generator returns
              /\ spc' = "done"
              /\ UNCHANGED <<start, inflight, fetch, slot, refetched>>
         ELSE LET pre == PrefetchSlots(start, e, len, concurrency, inflight)
                  infl1 == inflight \cup pre
                  f1 == Launch(fetch, pre)
                  hit == start \in infl1
              IN /\ slot' = start
                 /\ start' = NextCursor(start)
                 /\ inflight' = IF hit THEN infl1 \ {start} ELSE infl1 \cup {start}
                 /\ fetch' = IF hit THEN f1 ELSE Launch(f1, {start})
                 /\ refetched' = refetched \cup Again(fetch, pre) \cup
                                    (IF hit THEN {} ELSE Again(f1, {start}))
                 /\ spc' = "awaiting"
  /\ UNCHANGED <<snapshot, live, concurrency, tip, out, serr, startOpt, endOpt, jitter>>
  /\ UNCHANGED notStream

\* The consumer pulls: the first next() runs _openp, later ones resume the
\* loop of _stream after its yield.
Pull ==
  \/ /\ spc = "init"
     /\ IF end = -1
          THEN \* _openp: this.length = await this.solana.getSlot()
               /\ spc' = "opening"
               /\ UNCHANGED <<start, end, length, snapshot, live, concurrency,
                              inflight, slot, fetch, tip, out, serr,
                              startOpt, endOpt, jitter, polled, refetched,
                              notStream>>
          ELSE ReadpBody(length, end) /\ polled' = NoPoll
  \/ /\ spc = "yielded"
     /\ ReadpBody(length, end)
     /\ polled' = NoPoll

\* An open that leaves the end as the options gave it.
OpenEndKept(snap, e, t) == e

\* _openp: if (this.snapshot && this.end === -1) this.end = this.length
OpenEnd(snap, e, t) == IF snap /\ e = -1 THEN t ELSE e

\* _openp resumes with the tip; snapshot mode fixes the end.
OpenReturn ==
  /\ spc = "opening"
  /\ ReadpBody(tip, OpenEnd(snapshot, end, tip))
  /\ polled' = NoPoll

\* The live-wait loop resumes with currentSlot = tip.
PollReturn ==
  /\ spc = "polling"
  /\ IF start = tip
       THEN \* await new Promise(resolve => setTimeout(resolve, 500)); continue
            /\ spc' = "sleeping"
            /\ polled' = NoPoll
            /\ UNCHANGED <<start, end, length, snapshot, live, concurrency,
                           inflight, slot, fetch, tip, out, serr,
                           startOpt, endOpt, jitter, refetched, notStream>>
       ELSE \* this.length = currentSlot, then the loop condition again
            /\ ReadpBody(tip, end)
            /\ polled' = [tip |-> tip, again |-> polled.tip = tip]

\* The 500 ms timer fires; `continue` re-evaluates start > length, which
\* nothing has changed, so the loop polls again.
SleepDone ==
  /\ spc = "sleeping"
  /\ ReadpBody(length, end)
  /\ polled' = NoPoll

\* The remote tip advances.
TipAdvance ==
  /\ tip < MaxTip
  /\ tip' = tip + 1
  /\ UNCHANGED <<start, end, length, snapshot, live, concurrency, inflight,
                 spc, slot, fetch, out, serr, startOpt, endOpt, jitter,
                 polled, refetched, notStream>>

\* A fetch promise settles; its .finally() callback runs _maybePrefetch
\* before any awaiting _readp resumes.
FetchSettle(s, o) ==
  /\ s \in DOMAIN fetch
  /\ fetch[s] = "pending"
  /\ LET pre == PrefetchSlots(start, end, length, concurrency, inflight)
     IN /\ inflight' = inflight \cup pre
        /\ fetch' = Launch([fetch EXCEPT ![s] = o], pre)
        /\ refetched' = refetched \cup Again(fetch, pre)
  /\ jitter' = (jitter \/ \E t \in DOMAIN fetch : t < s /\ fetch[t] = "pending")
  /\ UNCHANGED <<start, end, length, snapshot, live, concurrency, spc, slot,
                 tip, out, serr, startOpt, endOpt, polled, notStream>>

FetchSettles == \E s \in DOMAIN fetch : \E o \in Outcomes : FetchSettle(s, o)

\* A read that takes an empty result for a block.
AvailableOrEmpty(o) == o \in {"ok", "empty"}

\* _readp: if (!block) throw new Error('Block not available: ' + slot)
Available(o) == o = "ok"

\* A catch that takes no rejection for a skipped slot.
SkippedOrMissingNever(o) == FALSE

\* _readp, catch: err.message.includes('was skipped, or missing due to
\* ledger jump to recent snapshot')
SkippedOrMissing(o) == o = "skipped"

\* _readp resumes from `await this._getBlockWithCache(slot)`.
Resume ==
  /\ spc = "awaiting"
  /\ fetch[slot] # "pending"
  /\ CASE Available(fetch[slot]) ->
            \* block.slot = slot; return block; the generator yields it
            /\ out' = Append(out, BlockRecord(slot, slot))
            /\ spc' = "yielded"
            /\ serr' = serr
       [] SkippedOrMissing(fetch[slot]) ->
            \* block = Symbol.for('solana-block-missing')
            /\ out' = Append(out, MissingRecord)
            /\ spc' = "yielded"
            /\ serr' = serr
       [] fetch[slot] = "empty" ->
            \* throw new Error('Block not available: ' + slot), rethrown by the catch
            /\ out' = out
            /\ spc' = "failed"
            /\ serr' = "Block not available"
       [] OTHER ->
            /\ out' = out
            /\ spc' = "failed"
            /\ serr' = "fetch error"
  /\ UNCHANGED <<start, end, length, snapshot, live, concurrency, inflight,
                 slot, fetch, tip, startOpt, endOpt, jitter, polled, refetched,
                 notStream>>

\* new BlockStream(solana, opts), for the option combinations of the model.
StreamInit ==
  /\ startOpt \in 0..MaxStart
  /\ endOpt \in -1..MaxEnd
  /\ concurrency \in 1..MaxPrefetch
  /\ live \in BOOLEAN
  /\ snapshot \in BOOLEAN
  /\ live => ~snapshot          \* this.snapshot = !opts.live && opts.snapshot !== false
  /\ start = startOpt
  /\ end = endOpt
  /\ length = 0
  /\ inflight = {}
  /\ spc = "init"
  /\ slot = 0
  /\ fetch = << >>
  /\ tip \in 0..MaxTip
  /\ out = << >>
  /\ serr = ""
  /\ jitter = FALSE
  /\ polled = NoPoll
  /\ refetched = {}

\* The stream before any use, for the specifications of the other parts.
StreamQuiet ==
  /\ startOpt = 0 /\ endOpt = -1 /\ concurrency = 1
  /\ live = FALSE /\ snapshot = TRUE
  /\ start = 0 /\ end = -1 /\ length = 0 /\ inflight = {}
  /\ spc = "init" /\ slot = 0 /\ fetch = << >> /\ tip = 0
  /\ out = << >> /\ serr = "" /\ jitter = FALSE /\ polled = NoPoll
  /\ refetched = {}

(***************************************************************************)
(* SolanaRPC.api and SolanaRPC._url                                        *)
(***************************************************************************)

Callers == 1..2

\* retry({ max: 3, delay: 1000, strategy: 'linear' })
RetryMax == 3
RetryDelay == 1000

\* like-retry, linear strategy: the wait before the next attempt grows with
\* the number of failures so far.
NextDelay(count) == RetryDelay * count

\* like-retry: the loop offers attempts while fewer than max were made.
RetryHasNext(attempts) == attempts < RetryMax

\* What one network attempt can come back with: a parsed success, a thrown
\* transport failure (timeout, connection error, unparsable body), HTTP
\* status 402, a payload with `error` (by code, -32602 with or without
\* `data`), or a payload with top-level `code` and `message`.
Responses == {"ok", "throw", "http402", "err429", "err32701", "err32602",
              "err32602data", "errOther", "code32007", "codeOther"}

NoError == [message |-> << >>, code |-> 0]
Err(msg, code) == [message |-> msg, code |-> code]
UnknownError == Err(<<"Unknown error">>, 0)

\* The Error built from an attempt's outcome; `code` 0 stands for no code
\* property, and -1 for a code other than the ones api() tests for.
ErrorOf(r) ==
  CASE r = "throw" -> Err(<<"fetch failed">>, 0)
    [] r = "http402" -> Err(<<"Payment required">>, 0)
    [] r = "err429" -> Err(<<"message">>, 0)
    [] r = "err32701" -> Err(<<"message">>, 0)
    \* data.error.message + (data.error.data ? (': ' + data.error.data) : '')
    [] r = "err32602" -> Err(<<"message">>, 0)
    [] r = "err32602data" -> Err(<<"message", ": ", "data">>, 0)
    [] r = "errOther" -> Err(<<"message">>, -1)
    [] r = "code32007" -> Err(<<"message">>, 0)
    [] r = "codeOther" -> Err(<<"message">>, -1)
    [] OTHER -> NoError

\* The loop body taking the rate-limit code for a fatal one.
ClassifyRateLimitFatal(r) ==
  CASE r = "ok" -> "return"
    [] r \in {"throw", "err32701", "code32007"} -> "backoff"
    [] OTHER -> "break"

\* The catch block rethrowing a transport failure instead of backing off.
ClassifyThrowFatal(r) ==
  CASE r = "ok" -> "return"
    [] r \in {"err429", "err32701", "code32007"} -> "backoff"
    [] OTHER -> "break"

\* The loop body retrying on the invalid-parameters code.
ClassifyBadParamsRetried(r) ==
  CASE r = "ok" -> "return"
    [] r \in {"throw", "err429", "err32701", "code32007",
              "err32602", "err32602data"} -> "backoff"
    [] OTHER -> "break"

\* api(): what the loop body does with an attempt's outcome: return the
\* data, `await backoff(...)` and go round again, or record the error and break.
Classify(r) ==
  CASE r = "ok" -> "return"
    [] r \in {"throw", "err429", "err32701", "code32007"} -> "backoff"
    [] OTHER -> "break"

\* The cursor wrapping one step late.
UrlNextLateWrap(i, k) == IF i + 1 > k THEN 0 ELSE i + 1

\* _url(): this._urlIndex++, and back to 0 when it reaches urls.length
UrlNext(i, k) == IF i + 1 >= k THEN 0 ELSE i + 1

\* The outcomes that are transient by the transport's contract: a transport
\* failure, rate limiting (429) and no healthy node (-32701).
Transient == {"throw", "err429", "err32701"}

\* A call: where it is suspended, the attempts it issued, the backoffs it
\* asked for, the `error` it recorded, the outcome of its last attempt, how
\* many of its attempts had a transient outcome, the waits it made, and what
\* it returned (the number of the attempt whose data it is) or raised.
IdleCall == [pc |-> "idle", attempts |-> 0, count |-> 0, error |-> NoError,
             last |-> "none", transient |-> 0, delays |-> << >>,
             result |-> 0, raised |-> NoError]

\* One pass of the loop up to `await fetch(this._url(), ...)`.
Issue(p, c) ==
  /\ calls' = [calls EXCEPT ![p] = [c EXCEPT !.pc = "fetching",
                                               !.attempts = c.attempts + 1]]
  /\ used' = Append(used, urls[_urlIndex + 1])
  /\ _urlIndex' = UrlNext(_urlIndex, Len(urls))

\* api(body) is called.
ApiStart(p) ==
  /\ calls[p].pc = "idle"
  /\ started < MaxRequests
  /\ started' = started + 1
  /\ overlap' = (overlap \/ \E q \in Callers : calls[q].pc \in {"fetching", "backoff"})
  /\ Issue(p, IdleCall)
  /\ UNCHANGED <<urls, notApi>>

\* The attempt's fetch settles and the loop body runs to its next await,
\* its return or its break.
ApiResponse(p, r) ==
  /\ calls[p].pc = "fetching"
  /\ LET c == [calls[p] EXCEPT !.last = r,
                                !.transient = IF r \in Transient THEN @ + 1 ELSE @]
     IN CASE Classify(r) = "return" ->
               calls' = [calls EXCEPT ![p] = [c EXCEPT !.pc = "returned",
                                                        !.result = c.attempts]]
          [] Classify(r) = "backoff" ->
               calls' = [calls EXCEPT ![p] =
                           [c EXCEPT !.pc = "backoff",
                                     !.count = c.count + 1,
                                     !.delays = Append(@, NextDelay(c.count + 1))]]
          [] OTHER ->
               \* error = new Error(...); break; throw error || new Error('Unknown error')
               calls' = [calls EXCEPT ![p] = [c EXCEPT !.pc = "raised",
                                                        !.error = ErrorOf(r),
                                                        !.raised = ErrorOf(r)]]
  /\ UNCHANGED <<urls, _urlIndex, used, started, overlap, notApi>>

\* The backoff wait is over: the loop goes round again, or it is exhausted
\* and api() falls through to `throw error || new Error('Unknown error')`.
BackoffDone(p) ==
  /\ calls[p].pc = "backoff"
  /\ IF RetryHasNext(calls[p].attempts)
       THEN Issue(p, calls[p])
       ELSE /\ calls' = [calls EXCEPT ![p] =
                           [calls[p] EXCEPT
                              !.pc = "raised",
                              !.raised = IF calls[p].error # NoError
                                           THEN calls[p].error
                                           ELSE UnknownError]]
            /\ UNCHANGED <<used, _urlIndex>>
  /\ UNCHANGED <<urls, started, overlap, notApi>>

\* The caller is done with the outcome of its call.
ApiForget(p) ==
  /\ calls[p].pc \in {"returned", "raised"}
  /\ calls' = [calls EXCEPT ![p] = IdleCall]
  /\ UNCHANGED <<urls, _urlIndex, used, started, overlap, notApi>>

\* new SolanaRPC(url): one to MaxUrls endpoints, cursor at 0.
ApiInit ==
  /\ urls \in {[i \in 1..k |-> i - 1] : k \in 1..MaxUrls}
  /\ _urlIndex = 0
  /\ calls = [p \in Callers |-> IdleCall]
  /\ used = << >>
  /\ started = 0
  /\ overlap = FALSE

\* The transport before any use, for the specifications of the other parts.
ApiQuiet ==
  /\ urls = <<0>>
  /\ _urlIndex = 0
  /\ calls = [p \in Callers |-> IdleCall]
  /\ used = << >>
  /\ started = 0
  /\ overlap = FALSE


(***************************************************************************)
(* HubSocket                                                               *)
(***************************************************************************)

\* A promise of an async method is settled.
Settled(pc) == pc \in {"resolved", "rejected"}

\* Inbound messages, told apart by their `id`.
Messages == 1..2

\* The predicate cb of a waitForMessage call, as the set of messages for
\* which it is true.
Predicates == {{1}, {2}, {1, 2}}

\* waitForMessage, onmessage: if (!cb(msg)) return
Matches(pred, m) == m \in pred

\* connect() starting a new attempt whatever this._connecting holds.
JoinsConnectNever(c) == FALSE

\* connect(): if (this._connecting) return this._connecting
JoinsConnect(c) == c # 0

\* disconnect(): if (this._disconnecting) return this._disconnecting
JoinsDisconnect(d) == d # 0

\* ws.close() and ws.terminate(): a connecting or open socket starts closing.
CloseSock(S, s) == [S EXCEPT ![s].rs = IF @ \in {0, 1} THEN 2 ELSE @]

\* _clearKeepAlive: the intervals left running
ClearedTimers(ka, tm) == IF ka THEN tm - 1 ELSE tm

\* _onclose: removes the four internal listeners from this.ws
Unlisten(S, w) == IF w = 0 THEN S ELSE [S EXCEPT ![w].hub = FALSE]

\* _disconnect, the catch block and the finally after it:
\* try { this.ws.close() } catch {}; this._onclose(); throw err.
\* (With this.ws null, _onclose throws after _clearKeepAlive.)
Forced(w, S, ka, tm) ==
  [pc |-> "rejected", sock |-> w,
   socks |-> Unlisten(IF w = 0 THEN S ELSE CloseSock(S, w), w),
   ka |-> FALSE, tm |-> ClearedTimers(ka, tm), connected |-> FALSE]

\* _disconnect from `if (this.ws.readyState === 1)` to its next await or
\* its end, conn being this._connected on entry.
DiscAfterOpen(w, S, ka, tm, conn) ==
  LET S1 == IF S[w].rs = 1 THEN [S EXCEPT ![w].rs = 2] ELSE S
  IN IF S1[w].rs = 2
       THEN \* await new Promise(resolve => this.ws.once('close', resolve))
            [pc |-> "waitClose", sock |-> w, socks |-> S1,
             ka |-> ka, tm |-> tm, connected |-> conn]
       ELSE [pc |-> "resolved", sock |-> w, socks |-> S1,
             ka |-> ka, tm |-> tm, connected |-> FALSE]

\* _disconnect from its try block to its next await or its end.
DiscRun(err, w, S, ka, tm, conn) ==
  IF err THEN Forced(w, S, ka, tm)
  ELSE IF w = 0
    THEN [pc |-> "resolved", sock |-> 0, socks |-> S,
          ka |-> ka, tm |-> tm, connected |-> FALSE]
  ELSE IF S[w].rs = 0
    THEN \* await waitForWebSocket(this.ws)
         [pc |-> "waitOpen", sock |-> w, socks |-> S,
          ka |-> ka, tm |-> tm, connected |-> conn]
  ELSE DiscAfterOpen(w, S, ka, tm, conn)

\* The runs that are not settled.
InFlightConns == {a \in DOMAIN conns : ~Settled(conns[a].pc)}
InFlightDiscs == {d \in DOMAIN discs : ~Settled(discs[d].pc)}

\* An async method can resume: what it awaits has settled.
ConnReady(a) ==
  \/ conns[a].pc \in {"gotOpen", "gotFail"}
  \/ conns[a].pc = "waitDisc" /\ Settled(discs[conns[a].dep].pc)

DiscReady(d) ==
  \/ discs[d].pc \in {"gotOpen", "gotFail", "gotClose"}
  \/ discs[d].pc = "waitConn" /\ Settled(conns[discs[d].dep].pc)

\* onAccountChange can resume: the reply its send() awaits has settled.
SubReady(k) ==
  subs[k].pc = "waiting" /\ waits[subs[k].wait].state # "pending"

\* No continuation is queued: the next thing to run is a new task.
Quiescent ==
  /\ \A a \in DOMAIN conns : ~ConnReady(a)
  /\ \A d \in DOMAIN discs : ~DiscReady(d)
  /\ \A k \in DOMAIN subs : ~SubReady(k)

\* The calls of the channel's user that a sequence of runs has served.
RECURSIVE Served(_)
Served(runs) ==
  IF runs = << >> THEN 0 ELSE Head(runs).callers + Served(Tail(runs))

\* The calls made so far on the channel and on the SolanaRPC object that
\* owns it; a wait with a request identifier was made by send().
Calls ==
  Served(conns) + Served(discs)
    + Cardinality({w \in DOMAIN waits : waits[w].req = 0})
    + Len(sent) + Len(subs) + Len(unsubs)

\* A run of _connect or _disconnect: its position, the socket and the
\* promise it awaits, and the number of user calls that were handed it.
NewConn(pc, s, d) == [pc |-> pc, sock |-> s, dep |-> d, callers |-> 1]
NewDisc(pc, s, a, err, n) == [pc |-> pc, sock |-> s, dep |-> a, err |-> err, callers |-> n]

\* connect() is called.
Connect ==
  /\ Calls < MaxCalls
  /\ UNCHANGED <<waits, delivered, badUrl, notSock>>
  /\ IF JoinsConnect(_connecting)
       THEN \* return this._connecting
            /\ conns' = [conns EXCEPT ![_connecting].callers = @ + 1]
            /\ UNCHANGED <<ws, _connecting, _disconnecting, _connected,
                           _keepAlive, socks, timers, discs>>
       ELSE /\ _connecting' = Len(conns) + 1
            /\ IF _connected
                 THEN IF _disconnecting # 0
                        THEN \* await this._disconnecting.catch(noop)
                             /\ conns' = Append(conns, NewConn("waitDisc", 0, _disconnecting))
                             /\ UNCHANGED <<ws, _disconnecting, _connected,
                                            _keepAlive, socks, timers, discs>>
                        ELSE \* await this.disconnect().catch(noop)
                             LET r == DiscRun(FALSE, ws, socks, _keepAlive, timers, _connected)
                             IN /\ discs' = Append(discs, NewDisc(r.pc, r.sock, 0, FALSE, 0))
                                /\ _disconnecting' = Len(discs) + 1
                                /\ conns' = Append(conns, NewConn("waitDisc", 0, Len(discs) + 1))
                                /\ socks' = r.socks
                                /\ _keepAlive' = r.ka
                                /\ timers' = r.tm
                                /\ _connected' = r.connected
                                /\ ws' = ws
                 ELSE IF badUrl
                   THEN \* new WebSocket throws: the finally runs before
                        \* connect() stores the promise in this._connecting
                        /\ conns' = Append(conns, NewConn("rejected", 0, 0))
                        /\ _disconnecting' = 0
                        /\ UNCHANGED <<ws, _connected, _keepAlive, socks, timers, discs>>
                   ELSE \* this.ws = new WebSocket(...); this.ws.on(...); await waitForWebSocket(this.ws)
                        /\ socks' = Append(socks, [rs |-> 0, hub |-> TRUE])
                        /\ ws' = Len(socks) + 1
                        /\ conns' = Append(conns, NewConn("waitOpen", Len(socks) + 1, 0))
                        /\ UNCHANGED <<_disconnecting, _connected, _keepAlive, timers, discs>>

\* _connect resumes from one of its awaits.
ConnResume(a) ==
  /\ a \in DOMAIN conns
  /\ ConnReady(a)
  /\ UNCHANGED <<waits, delivered, badUrl, discs, notSock>>
  /\ CASE conns[a].pc = "waitDisc" ->
            IF badUrl
              THEN \* new WebSocket throws; finally
                   /\ conns' = [conns EXCEPT ![a].pc = "rejected"]
                   /\ _connecting' = 0
                   /\ _disconnecting' = 0
                   /\ UNCHANGED <<ws, _connected, _keepAlive, socks, timers>>
              ELSE /\ socks' = Append(socks, [rs |-> 0, hub |-> TRUE])
                   /\ ws' = Len(socks) + 1
                   /\ conns' = [conns EXCEPT ![a].pc = "waitOpen",
                                             ![a].sock = Len(socks) + 1]
                   /\ UNCHANGED <<_connecting, _disconnecting, _connected,
                                  _keepAlive, timers>>
       [] conns[a].pc = "gotOpen" ->
            \* finally; this._keepAlive = setInterval(...); this._connected = true
            /\ conns' = [conns EXCEPT ![a].pc = "resolved"]
            /\ _connecting' = 0
            /\ _disconnecting' = 0
            /\ _keepAlive' = TRUE
            /\ timers' = timers + 1
            /\ _connected' = TRUE
            /\ UNCHANGED <<ws, socks>>
       [] OTHER ->
            \* waitForWebSocket rejected; finally
            /\ conns' = [conns EXCEPT ![a].pc = "rejected"]
            /\ _connecting' = 0
            /\ _disconnecting' = 0
            /\ UNCHANGED <<ws, _connected, _keepAlive, socks, timers>>

\* disconnect(err) is called; err tells whether a reason is given.
Disconnect(err) ==
  /\ Calls < MaxCalls
  /\ UNCHANGED <<ws, _connecting, conns, waits, delivered, badUrl, notSock>>
  /\ IF JoinsDisconnect(_disconnecting)
       THEN \* return this._disconnecting
            /\ discs' = [discs EXCEPT ![_disconnecting].callers = @ + 1]
            /\ UNCHANGED <<_disconnecting, _connected, _keepAlive, socks, timers>>
       ELSE /\ _disconnecting' = Len(discs) + 1
            /\ IF ~_connected /\ _connecting # 0
                 THEN \* await this._connecting.catch(noop)
                      /\ discs' = Append(discs, NewDisc("waitConn", 0, _connecting, err, 1))
                      /\ UNCHANGED <<_connected, _keepAlive, socks, timers>>
                 ELSE LET r == DiscRun(err, ws, socks, _keepAlive, timers, _connected)
                      IN /\ discs' = Append(discs, NewDisc(r.pc, r.sock, 0, err, 1))
                         /\ socks' = r.socks
                         /\ _keepAlive' = r.ka
                         /\ timers' = r.tm
                         /\ _connected' = r.connected

\* _disconnect resumes from one of its awaits.
DiscResume(d) ==
  /\ d \in DOMAIN discs
  /\ DiscReady(d)
  /\ UNCHANGED <<ws, _connecting, _disconnecting, conns, waits, delivered,
                 badUrl, notSock>>
  /\ LET r == CASE discs[d].pc = "waitConn" ->
                     DiscRun(discs[d].err, ws, socks, _keepAlive, timers, _connected)
                [] discs[d].pc = "gotOpen" ->
                     DiscAfterOpen(ws, socks, _keepAlive, timers, _connected)
                [] discs[d].pc = "gotFail" ->
                     Forced(ws, socks, _keepAlive, timers)
                [] OTHER ->
                     [pc |-> "resolved", sock |-> discs[d].sock, socks |-> socks,
                      ka |-> _keepAlive, tm |-> timers, connected |-> FALSE]
     IN /\ discs' = [discs EXCEPT ![d].pc = r.pc, ![d].sock = r.sock]
        /\ socks' = r.socks
        /\ _keepAlive' = r.ka
        /\ timers' = r.tm
        /\ _connected' = r.connected

\* The waitForWebSocket promises on socket s settle with outcome got.
ConnsAfter(s, got) ==
  [a \in DOMAIN conns |->
     IF conns[a].pc = "waitOpen" /\ conns[a].sock = s
       THEN [conns[a] EXCEPT !.pc = got] ELSE conns[a]]

\* Socket s emits 'open'.
SockOpen(s) ==
  /\ s \in DOMAIN socks
  /\ Quiescent
  /\ socks[s].rs = 0
  /\ socks' = [socks EXCEPT ![s].rs = 1]
  /\ conns' = ConnsAfter(s, "gotOpen")
  /\ discs' = [d \in DOMAIN discs |->
                 IF discs[d].pc = "waitOpen" /\ discs[d].sock = s
                   THEN [discs[d] EXCEPT !.pc = "gotOpen"] ELSE discs[d]]
  /\ UNCHANGED <<ws, _connecting, _disconnecting, _connected, _keepAlive,
                 timers, waits, delivered, badUrl, notSock>>

\* Socket s emits 'error' and starts closing.
SockError(s) ==
  /\ s \in DOMAIN socks
  /\ Quiescent
  /\ socks[s].rs \in {0, 1}
  /\ socks' = [socks EXCEPT ![s].rs = 2]
  /\ conns' = ConnsAfter(s, "gotFail")
  /\ discs' = [d \in DOMAIN discs |->
                 IF discs[d].pc = "waitOpen" /\ discs[d].sock = s
                   THEN [discs[d] EXCEPT !.pc = "gotFail"] ELSE discs[d]]
  /\ UNCHANGED <<ws, _connecting, _disconnecting, _connected, _keepAlive,
                 timers, waits, delivered, badUrl, notSock>>

\* resolve or reject is called on the promise of a waitForMessage: the first
\* call decides its state, every call is counted.
Settle(w, st) == [w EXCEPT !.state = IF @ = "pending" THEN st ELSE @,
                           !.settles = @ + 1]

\* waitForMessage, cleanup: the message listener is removed, then the close
\* listener from the socket captured at the call.
Cleanup(w) == [w EXCEPT !.msgL = FALSE, !.closeL = FALSE]

\* waitForMessage, onclose: clearTimeout, cleanup, reject 'Connection destroyed'
WaitClosed(w) == Settle(Cleanup([w EXCEPT !.timer = FALSE]), "closed")

\* Socket s emits 'close': _onclose if it is still registered on s, then
\* the close listeners of waitForWebSocket, waitForMessage and _disconnect.
SockClose(s) ==
  /\ s \in DOMAIN socks
  /\ Quiescent
  /\ socks[s].rs \in {0, 1, 2}
  /\ LET S1 == [socks EXCEPT ![s].rs = 3]
     IN IF socks[s].hub
          THEN /\ socks' = Unlisten(S1, ws)
               /\ timers' = ClearedTimers(_keepAlive, timers)
               /\ _keepAlive' = FALSE
          ELSE /\ socks' = S1
               /\ UNCHANGED <<timers, _keepAlive>>
  /\ conns' = ConnsAfter(s, "gotFail")
  /\ discs' = [d \in DOMAIN discs |->
                 IF discs[d].pc = "waitOpen" /\ discs[d].sock = s
                   THEN [discs[d] EXCEPT !.pc = "gotFail"]
                 ELSE IF discs[d].pc = "waitClose" /\ discs[d].sock = s
                   THEN [discs[d] EXCEPT !.pc = "gotClose"]
                 ELSE discs[d]]
  /\ waits' = [w \in DOMAIN waits |->
                 IF waits[w].closeL /\ waits[w].sock = s
                   THEN WaitClosed(waits[w]) ELSE waits[w]]
  /\ UNCHANGED <<ws, _connecting, _disconnecting, _connected, delivered,
                 badUrl, notSock>>

\* The promise waitForMessage(cb) builds. With this.ws null,
\* ws.on('close', ...) throws inside the executor after the timer was armed
\* and the message listener registered: the promise is rejected with that
\* TypeError. req is the identifier of the send() that waits (0 for a direct
\* call). History: offered is the first message emitted while the promise
\* was pending that its predicate accepts (0 when none was), skipped tells
\* that a message it does not accept was emitted while it was pending.
NewWait(pred, req) ==
  [state |-> IF ws = 0 THEN "typeerror" ELSE "pending",
   settles |-> IF ws = 0 THEN 1 ELSE 0,
   pred |-> pred, sock |-> ws, value |-> 0,
   msgL |-> TRUE, closeL |-> ws # 0, timer |-> TRUE,
   req |-> req, offered |-> 0, skipped |-> FALSE]

\* waitForMessage(cb) is called.
WaitForMessage(pred) ==
  /\ Calls < MaxCalls
  /\ waits' = Append(waits, NewWait(pred, 0))
  /\ UNCHANGED <<ws, _connecting, _disconnecting, _connected, _keepAlive,
                 socks, timers, conns, discs, delivered, badUrl, notSock>>

\* waitForMessage, onmessage, run for message m because it is registered.
\* With no socket captured, cleanup throws once the message listener is
\* removed.
WaitOnMessage(w, m) ==
  IF ~Matches(w.pred, m) THEN w
  ELSE IF w.sock = 0 THEN [w EXCEPT !.timer = FALSE, !.msgL = FALSE]
  ELSE Settle(Cleanup([w EXCEPT !.timer = FALSE, !.value = m]), "resolved")

\* History: message m is emitted while the promise of w may be pending.
Offered(w, m) ==
  IF w.state # "pending" THEN w
  ELSE IF m \notin w.pred THEN [w EXCEPT !.skipped = TRUE]
  ELSE IF w.offered = 0 THEN [w EXCEPT !.offered = m]
  ELSE w

\* The message listeners whose cleanup throws on message m.
Throwers(m) ==
  {w \in DOMAIN waits :
     waits[w].msgL /\ waits[w].sock = 0 /\ Matches(waits[w].pred, m)}

\* emit('message', m): the listeners run in the order they were registered,
\* and a listener that throws ends the emit, the later ones are not called.
Emitted(m) ==
  LET last == IF Throwers(m) = {} THEN Len(waits)
              ELSE CHOOSE t \in Throwers(m) : \A u \in Throwers(m) : t <= u
  IN [w \in DOMAIN waits |->
        IF waits[w].msgL /\ w <= last
          THEN WaitOnMessage(Offered(waits[w], m), m)
          ELSE Offered(waits[w], m)]

\* Socket s emits 'message' and _onmessage, registered on it, emits the
\* parsed message to the channel's listeners.
SockMessage(s, m) ==
  /\ s \in DOMAIN socks
  /\ Quiescent
  /\ socks[s].rs = 1
  /\ socks[s].hub
  /\ delivered < MaxMessages
  /\ delivered' = delivered + 1
  /\ waits' = Emitted(m)
  /\ UNCHANGED <<ws, _connecting, _disconnecting, _connected, _keepAlive,
                 socks, timers, conns, discs, badUrl, notSock>>

\* The 60 s timer of a waitForMessage fires: cleanup, reject 'ACK timed out'.
\* With no socket captured, cleanup throws before reject is reached.
WaitTimedOut(w) ==
  IF w.sock = 0 THEN [w EXCEPT !.timer = FALSE, !.msgL = FALSE]
  ELSE Settle(Cleanup([w EXCEPT !.timer = FALSE]), "timeout")

WaitTimeout(w) ==
  /\ w \in DOMAIN waits
  /\ Quiescent
  /\ waits[w].timer
  /\ waits' = [waits EXCEPT ![w] = WaitTimedOut(@)]
  /\ UNCHANGED <<ws, _connecting, _disconnecting, _connected, _keepAlive,
                 socks, timers, conns, discs, delivered, badUrl, notSock>>

\* new HubSocket(url)
SockInit ==
  /\ ws = 0
  /\ _connecting = 0
  /\ _disconnecting = 0
  /\ _connected = FALSE
  /\ _keepAlive = FALSE
  /\ socks = << >>
  /\ timers = 0
  /\ conns = << >>
  /\ discs = << >>
  /\ waits = << >>
  /\ delivered = 0
  /\ badUrl \in BOOLEAN

\* The channel before any use, for the specifications of the other parts.
SockQuiet == SockInit /\ badUrl = FALSE

(***************************************************************************)
(* SolanaRPC over the channel: send, request, account subscriptions        *)
(***************************************************************************)

\* The subscription identifiers the remote side issues.
SubIds == 1..2

\* _subscribe: retry({ max: 5 })
SubscribeMax == 5

\* like-retry: the loop offers attempts while fewer than max were made.
SubscribeHasNext(attempts) == attempts < SubscribeMax

\* What the reply to a subscribe request carries: an `error` (written
\* SubError), a falsy result (0), or a subscription identifier.
SubError == 0 - 1
SubResults == {SubError, 0} \cup SubIds

\* The inbound frame {method: 'accountNotification', params: {subscription}}:
\* it has no `id`, so it is told apart from every reply.
Note(sid) == 0 - sid

\* this.id++
NextId(i) == i + 1

\* HubSocket.send: throws unless this.ws.readyState is 1 (a TypeError when
\* this.ws is null).
CanSend == ws # 0 /\ socks[ws].rs = 1

\* send(method, params, { wait }): takes the identifier, hands the frame to
\* the socket and, unless wait is false, registers
\* waitForMessage(msg => msg.id === id) in the same turn.
SendRun(wait) ==
  [id |-> NextId(id),
   issued |-> Append(issued, id),
   out |-> IF ~CanSend THEN "threw" ELSE IF wait THEN "wait" ELSE "nowait",
   waits |-> IF CanSend /\ wait THEN Append(waits, NewWait({id}, id)) ELSE waits,
   wait |-> IF CanSend /\ wait THEN Len(waits) + 1 ELSE 0]

\* send() is called.
Send(wait) ==
  /\ Calls < MaxCalls
  /\ LET r == SendRun(wait)
     IN /\ id' = r.id
        /\ issued' = r.issued
        /\ waits' = r.waits
        /\ sent' = Append(sent, [id |-> id, out |-> r.out, wait |-> r.wait])
  /\ UNCHANGED <<_subscriptions, subs, unsubs, ws, _connecting, _disconnecting,
                 _connected, _keepAlive, socks, timers, conns, discs,
                 delivered, badUrl, notRpc>>

\* request() is called: it takes an identifier from the same counter; the
\* HTTP exchange itself is the api() of SpecApi.
Request ==
  /\ Calls < MaxCalls
  /\ id' = NextId(id)
  /\ issued' = Append(issued, id)
  /\ sent' = Append(sent, [id |-> id, out |-> "request", wait |-> 0])
  /\ UNCHANGED <<_subscriptions, subs, unsubs, sockVars, notRpc>>

\* onAccountChange(address, cb) is called: _subscribe makes its first send.
OnAccountChange ==
  /\ Calls < MaxCalls
  /\ LET r == SendRun(TRUE)
     IN /\ id' = r.id
        /\ issued' = r.issued
        /\ waits' = r.waits
        /\ subs' = Append(subs,
             [pc |-> IF r.out = "threw" THEN "failed" ELSE "waiting",
              wait |-> r.wait, attempts |-> 1, sid |-> 0,
              listening |-> FALSE, unsubscribed |-> FALSE, late |-> FALSE])
  /\ UNCHANGED <<_subscriptions, sent, unsubs, ws, _connecting, _disconnecting,
                 _connected, _keepAlive, socks, timers, conns, discs,
                 delivered, badUrl, notRpc>>

\* onAccountChange resumes when its send() settles; r is what the reply
\* carries. With an identifier it registers onMessage on the channel and
\* stores it under that identifier.
SubResume(k, r) ==
  /\ k \in DOMAIN subs
  /\ SubReady(k)
  /\ UNCHANGED <<id, issued, sent, unsubs, sockVars, notRpc>>
  /\ IF waits[subs[k].wait].state # "resolved" \/ r = SubError
       THEN \* send() threw
            /\ subs' = [subs EXCEPT ![k].pc = "failed"]
            /\ UNCHANGED _subscriptions
     ELSE IF r = 0
       THEN \* await backoff(new Error('Failed to subscribe')); continue
            /\ subs' = [subs EXCEPT ![k].pc =
                          IF SubscribeHasNext(subs[k].attempts)
                            THEN "backoff" ELSE "exhausted"]
            /\ UNCHANGED _subscriptions
     ELSE /\ subs' = [subs EXCEPT ![k].pc = "done", ![k].sid = r,
                                  ![k].listening = TRUE]
          /\ _subscriptions' = [_subscriptions EXCEPT ![r] = k]

\* The backoff of _subscribe is over: the next send.
SubBackoffDone(k) ==
  /\ k \in DOMAIN subs
  /\ Quiescent
  /\ subs[k].pc = "backoff"
  /\ LET r == SendRun(TRUE)
     IN /\ id' = r.id
        /\ issued' = r.issued
        /\ waits' = r.waits
        /\ subs' = [subs EXCEPT ![k].pc = IF r.out = "threw" THEN "failed"
                                                            ELSE "waiting",
                                ![k].wait = r.wait,
                                ![k].attempts = @ + 1]
  /\ UNCHANGED <<_subscriptions, sent, unsubs, ws, _connecting, _disconnecting,
                 _connected, _keepAlive, socks, timers, conns, discs,
                 delivered, badUrl, notRpc>>

\* accountUnsubscribe(sid) is called. unsubscribed marks the calls that had
\* subscribed under sid.
AccountUnsubscribe(sid) ==
  /\ Calls < MaxCalls
  /\ UNCHANGED <<sent, ws, _connecting, _disconnecting, _connected,
                 _keepAlive, socks, timers, conns, discs, delivered, badUrl,
                 notRpc>>
  /\ IF _subscriptions[sid] = 0
       THEN \* throw new Error('Subscription not found: ' + id)
            /\ unsubs' = Append(unsubs, [sid |-> sid, out |-> "notfound"])
            /\ UNCHANGED <<id, issued, waits, subs, _subscriptions>>
       ELSE LET r == SendRun(TRUE)
            IN /\ _subscriptions' = [_subscriptions EXCEPT ![sid] = 0]
               /\ subs' = [k \in DOMAIN subs |->
                    IF subs[k].pc = "done" /\ subs[k].sid = sid
                      THEN [subs[k] EXCEPT
                              !.listening = @ /\ k # _subscriptions[sid],
                              !.unsubscribed = TRUE]
                      ELSE subs[k]]
               /\ id' = r.id
               /\ issued' = r.issued
               /\ waits' = r.waits
               /\ unsubs' = Append(unsubs, [sid |-> sid, out |-> r.out])

\* Socket s emits an account notification for sid: every waitForMessage
\* listener sees it and every registered onMessage of that identifier calls
\* its cb; late records a cb called after its identifier was unsubscribed.
SockNotify(s, sid) ==
  /\ s \in DOMAIN socks
  /\ Quiescent
  /\ socks[s].rs = 1
  /\ socks[s].hub
  /\ delivered < MaxMessages
  /\ delivered' = delivered + 1
  /\ waits' = Emitted(Note(sid))
  /\ subs' = [k \in DOMAIN subs |->
       IF subs[k].listening /\ subs[k].sid = sid
         THEN [subs[k] EXCEPT !.late = @ \/ subs[k].unsubscribed]
         ELSE subs[k]]
  /\ UNCHANGED <<id, _subscriptions, issued, sent, unsubs, ws, _connecting,
                 _disconnecting, _connected, _keepAlive, socks, timers, conns,
                 discs, badUrl, notRpc>>

\* new SolanaRPC(): this.id = 1, this._subscriptions = new Map()
RpcInit ==
  /\ id = 1
  /\ _subscriptions = [sid \in SubIds |-> 0]
  /\ issued = << >>
  /\ sent = << >>
  /\ subs = << >>
  /\ unsubs = << >>

RpcQuiet == RpcInit

\* The channel once `await rpc.connect()` has returned: its first socket is
\* open, the keepalive interval runs, and the finished _connect run is no
\* longer tracked.
SockConnected ==
  /\ ws = 1
  /\ _connecting = 0
  /\ _disconnecting = 0
  /\ _connected = TRUE
  /\ _keepAlive = TRUE
  /\ socks = <<[rs |-> 1, hub |-> TRUE]>>
  /\ timers = 1
  /\ conns = << >>
  /\ discs = << >>
  /\ waits = << >>
  /\ delivered = 0
  /\ badUrl = FALSE

(***************************************************************************)
(* SolanaRPC.getBlocks                                                     *)
(***************************************************************************)

\* The block the node returns for a slot.
Block(sl) == [slot |-> sl]

RECURSIVE Range(_, _)
\* for (let i = start; i < end; i++): the values of i, in order.
Range(a, b) == IF a < b THEN <<a>> \o Range(a + 1, b) ELSE << >>

\* getBlocks: the slots it calls getBlock for, in order; start === end is
\* answered with [await this.getBlock(start, opts)].
Requested(a, b) == IF a = b THEN <<a>> ELSE Range(a, b)

\* getBlocks(start, end) is called: every getBlock goes through request(),
\* which takes its identifier before its first await.
GetBlocksCall ==
  /\ getBlocks.pc = "idle"
  /\ LET reqs == Requested(getBlocks.start, getBlocks.end)
         n == Len(reqs)
     IN /\ getBlocks' = [getBlocks EXCEPT
               !.reqs = reqs,
               !.settled = [i \in 1..n |-> "pending"],
               \* Promise.all([]) resolves with []
               !.pc = IF n = 0 THEN "returned" ELSE "awaiting"]
        /\ id' = id + n
        /\ issued' = issued \o [i \in 1..n |-> id + i - 1]
  /\ UNCHANGED notBlocks

\* The getBlock request for reqs[i] settles with a block or a rejection.
\* Promise.all (and the await of the single request) rejects with the first
\* rejection and resolves, once all have resolved, with the blocks in the
\* order of the requests.
GetBlockSettles(i, ok) ==
  /\ i \in DOMAIN getBlocks.settled
  /\ getBlocks.settled[i] = "pending"
  /\ LET st == [getBlocks.settled EXCEPT ![i] = IF ok THEN "ok" ELSE "error"]
     IN getBlocks' = [getBlocks EXCEPT
          !.settled = st,
          !.pc = IF @ # "awaiting" THEN @
                 ELSE IF ~ok THEN "raised"
                 ELSE IF \A j \in DOMAIN st : st[j] = "ok" THEN "returned"
                 ELSE @,
          !.raised = IF getBlocks.pc = "awaiting" /\ ~ok
                       THEN getBlocks.reqs[i] ELSE @,
          !.out = IF getBlocks.pc = "awaiting" /\ \A j \in DOMAIN st : st[j] = "ok"
                    THEN [j \in DOMAIN st |-> Block(getBlocks.reqs[j])] ELSE @]
  /\ UNCHANGED <<id, issued, notBlocks>>

IdleBlocks(a, b) ==
  [start |-> a, end |-> b, pc |-> "idle", reqs |-> << >>, settled |-> << >>,
   out |-> << >>, raised |-> -1]

\* The arguments of the getBlocks call that is going to be made.
BlocksInit == \E a, b \in 0..MaxSlot : getBlocks = IdleBlocks(a, b)

\* No getBlocks call, for the specifications of the other parts.
BlocksQuiet == getBlocks = IdleBlocks(0, 0)

(***************************************************************************)
(* Specifications                                                          *)
(***************************************************************************)

InitStream == StreamInit /\ ApiQuiet /\ SockQuiet /\ RpcQuiet /\ BlocksQuiet

NextStream ==
  \/ Pull
  \/ OpenReturn
  \/ PollReturn
  \/ SleepDone
  \/ TipAdvance
  \/ FetchSettles
  \/ Resume

SpecStream == InitStream /\ [][NextStream]_vars

InitApi == ApiInit /\ StreamQuiet /\ SockQuiet /\ RpcQuiet /\ BlocksQuiet

NextApi ==
  \/ \E p \in Callers : ApiStart(p)
  \/ \E p \in Callers : \E r \in Responses : ApiResponse(p, r)
  \/ \E p \in Callers : BackoffDone(p)
  \/ \E p \in Callers : ApiForget(p)

SpecApi == InitApi /\ [][NextApi]_vars

InitSock == SockInit /\ StreamQuiet /\ ApiQuiet /\ RpcQuiet /\ BlocksQuiet

NextSock ==
  \/ Connect
  \/ \E a \in DOMAIN conns : ConnResume(a)
  \/ \E err \in BOOLEAN : Disconnect(err)
  \/ \E d \in DOMAIN discs : DiscResume(d)
  \/ \E s \in DOMAIN socks : SockOpen(s)
  \/ \E s \in DOMAIN socks : SockError(s)
  \/ \E s \in DOMAIN socks : SockClose(s)
  \/ \E pred \in Predicates : WaitForMessage(pred)
  \/ \E s \in DOMAIN socks : \E m \in Messages : SockMessage(s, m)
  \/ \E w \in DOMAIN waits : WaitTimeout(w)

SpecSock == InitSock /\ [][NextSock]_vars

\* The SolanaRPC object over one connection, from `await rpc.connect()` to
\* the end of that connection: the events of the socket and the teardown.
InitRpc == RpcInit /\ SockConnected /\ StreamQuiet /\ ApiQuiet /\ BlocksQuiet

NextLink ==
  \/ \E err \in BOOLEAN : Disconnect(err)
  \/ \E d \in DOMAIN discs : DiscResume(d)
  \/ \E s \in DOMAIN socks : SockError(s)
  \/ \E s \in DOMAIN socks : SockClose(s)
  \/ \E s \in DOMAIN socks : \E m \in Messages : SockMessage(s, m)
  \/ \E w \in DOMAIN waits : WaitTimeout(w)

\* The SolanaRPC object and its channel from construction: the channel's
\* own calls and events, and send() and request().
InitSend == InitSock

NextSend ==
  \/ NextSock
  \/ \E wait \in BOOLEAN : Send(wait)
  \/ Request

SpecSend == InitSend /\ [][NextSend]_vars

\* Account subscriptions over that connection.
NextSubs ==
  \/ NextLink
  \/ \E s \in DOMAIN socks : \E sid \in SubIds : SockNotify(s, sid)
  \/ OnAccountChange
  \/ \E k \in DOMAIN subs : \E r \in SubResults : SubResume(k, r)
  \/ \E k \in DOMAIN subs : SubBackoffDone(k)
  \/ \E sid \in SubIds : AccountUnsubscribe(sid)

SpecSubs == InitRpc /\ [][NextSubs]_vars

\* One getBlocks(start, end) call on a new SolanaRPC object.
InitBlocks ==
  BlocksInit /\ RpcInit /\ SockQuiet /\ StreamQuiet /\ ApiQuiet

NextBlocks ==
  \/ GetBlocksCall
  \/ \E i \in 1..MaxSlot + 1 : \E ok \in BOOLEAN : GetBlockSettles(i, ok)

SpecBlocks == InitBlocks /\ [][NextBlocks]_vars

(***************************************************************************)
(* Properties of the block stream                                          *)
(***************************************************************************)

\* A bounded stream: not live, with an explicit end above its start.
Bounded == ~live /\ endOpt >= 0 /\ startOpt < endOpt

\* No fetch of a slot of [start, end) has failed or come back empty.
RangeOk ==
  \A s \in startOpt..(endOpt - 1) :
    s \in DOMAIN fetch => fetch[s] \in {"pending", "ok"}

\* The records of slots start .. end-1, each made from that slot's block.
Expected ==
  [i \in 1..(endOpt - startOpt) |->
     BlockRecord(startOpt + i - 1, startOpt + i - 1)]

\* C1: a bounded stream (start < end) whose fetches succeed never raises,
\* yields the records of slots start, start+1, ... in that order whatever
\* the order in which the fetches complete, has yielded exactly end - start
\* of them when it ends, and awaits no further block once it has.
C1_BoundedStreamInOrder ==
  (Bounded /\ RangeOk) =>
     /\ spc # "failed"
     /\ Len(out) <= Len(Expected)
     /\ out = SubSeq(Expected, 1, Len(out))
     /\ (spc = "done" => out = Expected)
     /\ (spc = "awaiting" => Len(out) < Len(Expected))

\* A bounded stream of at least two slots has ended after yielding all of
\* them, some fetch having completed before the fetch of a lower slot.
C1_Witness ==
  /\ Bounded /\ RangeOk
  /\ spc = "done"
  /\ Len(out) >= 2
  /\ out = Expected
  /\ jitter

\* C2: the prefetch cache never holds more entries than the window.
C2_CacheWithinWindow == Cardinality(inflight) <= concurrency

(***************************************************************************)
(* Properties of the request transport                                     *)
(***************************************************************************)

\* The attempts of a call that have been answered.
Answered(c) == IF c.pc = "fetching" THEN c.attempts - 1 ELSE c.attempts

\* The outcomes that end a call at once.
Fatal == {"http402", "err32602", "err32602data", "errOther", "codeOther"}

\* C3: a call whose attempts so far all failed transiently, fewer than three
\* of them, has surfaced no error and is waiting or trying again; when its
\* first two attempts failed transiently and the third succeeded it has
\* returned the third attempt's data, raised nothing, and waited exactly
\* twice, 1000 then 2000.
C3_RetriedThenSucceeds ==
  \A p \in Callers :
    LET c == calls[p]
    IN /\ (Answered(c) \in 1..2 /\ c.transient = Answered(c)) =>
            (c.pc \in {"backoff", "fetching"} /\ c.raised = NoError)
       /\ (c.attempts = 3 /\ c.transient = 2 /\ c.last = "ok") =>
            /\ c.pc = "returned"
            /\ c.result = 3
            /\ c.raised = NoError
            /\ c.delays = <<1000, 2000>>

\* A call has returned on its third attempt after two transient failures.
C3_Witness ==
  \E p \in Callers :
    /\ calls[p].pc = "returned"
    /\ calls[p].attempts = 3
    /\ calls[p].transient = 2
    /\ Len(calls[p].delays) = 2

\* C4: no call issues more than 3 attempts; a call whose three attempts all
\* failed transiently issues no fourth; and a call that raised with every
\* attempt failed transiently made exactly 3 attempts and raised the last
\* attempt's error, or 'Unknown error' when it had recorded none.
C4_RaisesAfterThreeAttempts ==
  \A p \in Callers :
    LET c == calls[p]
    IN /\ c.attempts <= 3
       /\ (c.transient = 3) => c.pc \in {"backoff", "raised"}
       /\ (c.pc = "raised" /\ c.transient = c.attempts) =>
            /\ c.attempts = 3
            /\ \/ c.raised = ErrorOf(c.last)
               \/ (c.error = NoError /\ c.raised = UnknownError)

\* A call has raised after three transient failures.
C4_Witness ==
  \E p \in Callers :
    /\ calls[p].pc = "raised"
    /\ calls[p].transient = 3
    /\ calls[p].attempts = 3

\* C5: a call whose last attempt had a fatal outcome has raised that
\* outcome's error (for -32602 with the data appended to the message), at
\* that attempt: it asked for no backoff and made no wait for it.
C5_FatalEndsTheCall ==
  \A p \in Callers :
    LET c == calls[p]
    IN (c.last \in Fatal) =>
         /\ c.pc = "raised"
         /\ c.raised = ErrorOf(c.last)
         /\ c.count = c.attempts - 1
         /\ Len(c.delays) = c.attempts - 1
         /\ (c.last = "err32602data" =>
               c.raised.message = <<"message", ": ", "data">>)
         /\ (c.last = "http402" => c.raised.message = <<"Payment required">>)

\* A call has raised the decorated invalid-parameters error on its second
\* attempt, after one transient failure.
C5_Witness ==
  \E p \in Callers :
    /\ calls[p].pc = "raised"
    /\ calls[p].last = "err32602data"
    /\ calls[p].attempts = 2
    /\ Len(calls[p].delays) = 1

\* C6: the cursor stays in [0, k) and equals the number of attempts issued
\* modulo k; the n-th attempt (from 0) used endpoint n mod k; and with two
\* endpoints, four calls made one after the other, each answered on its
\* first attempt, used endpoints 0, 1, 0, 1.
C6_RoundRobin ==
  LET k == Len(urls)
  IN /\ _urlIndex \in 0..(k - 1)
     /\ _urlIndex = Len(used) % k
     /\ \A n \in 1..Len(used) : used[n] = urls[((n - 1) % k) + 1]
     /\ (k = 2 /\ ~overlap /\ started = 4 /\ Len(used) = 4) =>
          used = <<0, 1, 0, 1>>

\* With two endpoints, four calls have been made one after the other and
\* each was answered on its first attempt.
C6_Witness ==
  /\ Len(urls) = 2
  /\ ~overlap
  /\ started = 4
  /\ Len(used) = 4
  /\ \E p \in Callers : calls[p].pc = "returned" /\ calls[p].attempts = 1

(***************************************************************************)
(* Properties of the duplex channel                                        *)
(***************************************************************************)

\* C7: at most one connection attempt is in flight; while one is, it is
\* the handle connect() returns, so every further caller joins it and gets
\* its outcome; and no socket is created beyond one per attempt, however
\* many callers there are.
C7_ConnectSingleFlight ==
  /\ Cardinality(InFlightConns) <= 1
  /\ \A a \in InFlightConns : _connecting = a
  /\ Len(socks) <= Len(conns)
  /\ Cardinality({s \in DOMAIN socks : socks[s].rs = 0}) <= 1

\* Two callers shared one connection attempt, which succeeded.
C7_Witness ==
  \E a \in DOMAIN conns :
    /\ conns[a].callers >= 2
    /\ conns[a].pc = "resolved"
    /\ Len(socks) = 1

\* C8: at most one teardown is in flight at any moment, whatever the
\* interleaving of connect() and disconnect() calls: a disconnect() made
\* while a teardown is in flight joins it and starts no second one.
C8_DisconnectSingleFlight == Cardinality(InFlightDiscs) <= 1

\* C9: when a teardown settles, resolved or rejected, the channel is marked
\* disconnected, no keepalive interval is running, and the internal
\* listeners are not registered on the underlying socket, taken to be the
\* socket the teardown closed or else the channel's current socket.
C9_SettledDisconnectIsClean ==
  [][\A d \in DOMAIN discs :
       (~Settled(discs[d].pc) /\ Settled(discs'[d].pc)) =>
          /\ ~_connected'
          /\ timers' = 0
          /\ \/ discs'[d].sock = 0
             \/ ~socks'[discs'[d].sock].hub
             \/ ~socks'[ws'].hub]_vars

\* C10: a waitForMessage promise that is pending has been offered no
\* message its predicate accepts; one that is resolved holds the first
\* accepted message emitted since it was registered; one rejected on the
\* deadline or on close was offered none before; and the emission of a
\* message it does not accept leaves a pending promise pending.
C10_FirstMatchResolves ==
  /\ [](\A w \in DOMAIN waits :
          /\ (waits[w].state = "pending" => waits[w].offered = 0)
          /\ (waits[w].state = "resolved" =>
                waits[w].value # 0 /\ waits[w].value = waits[w].offered)
          /\ (waits[w].state \in {"timeout", "closed"} => waits[w].offered = 0))
  /\ [][\A w \in DOMAIN waits :
          (/\ waits[w].state = "pending"
           /\ delivered' = delivered + 1
           /\ waits'[w].offered = 0)
          => waits'[w].state = "pending"]_vars

\* C11: every waitForMessage promise is settled at most once, with one of
\* the three outcomes (resolved with a message its predicate accepts,
\* rejected on the deadline, rejected on close), and once it is settled its
\* message listener and its close listener are gone and its timer is not
\* pending.
C11_WaitSettlesOnceAndCleans ==
  \A w \in DOMAIN waits :
    /\ waits[w].settles <= 1
    /\ waits[w].state \in {"pending", "resolved", "timeout", "closed"}
    /\ (waits[w].state = "pending") <=> (waits[w].settles = 0)
    /\ (waits[w].state = "resolved" => waits[w].value \in waits[w].pred)
    /\ (waits[w].state # "pending" =>
          ~waits[w].msgL /\ ~waits[w].closeL /\ ~waits[w].timer)

\* C12: a wait that is pending when its connection closes is rejected with
\* the connection-closed error in that very step, and when a disconnect()
\* resolves no wait is left pending until its deadline.
C12_CloseRejectsPending ==
  [][/\ \A w \in DOMAIN waits :
          (/\ waits[w].state = "pending"
           /\ socks[waits[w].sock].rs # 3
           /\ socks'[waits[w].sock].rs = 3)
          => waits'[w].state = "closed"
     /\ \A d \in DOMAIN discs' :
          (/\ discs'[d].pc = "resolved"
           /\ (d \in DOMAIN discs => discs[d].pc # "resolved"))
          => \A w \in DOMAIN waits' : waits'[w].state # "pending"]_vars

\* C13: identifiers are handed out in strictly increasing order and the
\* counter is above every one of them, so none is used twice; a send() that
\* waits accepts exactly the reply carrying its own identifier, completes
\* with that reply and no other, and while it is pending no reply with its
\* identifier has been emitted since it was made.
C13_RepliesCorrelated ==
  /\ \A i \in DOMAIN issued : issued[i] < id
  /\ \A i, j \in DOMAIN issued : i < j => issued[i] < issued[j]
  /\ \A w \in DOMAIN waits :
        waits[w].req # 0 =>
          /\ waits[w].pred = {waits[w].req}
          /\ \E i \in DOMAIN issued : issued[i] = waits[w].req
          /\ \A v \in DOMAIN waits : waits[v].req = waits[w].req => v = w
          /\ (waits[w].state = "resolved" => waits[w].value = waits[w].req)
          /\ (waits[w].state = "pending" => waits[w].offered = 0)

\* C14: once accountUnsubscribe(sid) has been made for a subscribed
\* identifier, no notification for sid calls the cb of a subscription made
\* under it; and an accountUnsubscribe(sid) that raises 'Subscription not
\* found' leaves the registry as it was and takes no identifier for a frame.
C14_UnsubscribeSilences ==
  [][/\ \A k \in DOMAIN subs' : ~subs'[k].late
     /\ (/\ Len(unsubs') = Len(unsubs) + 1
         /\ unsubs'[Len(unsubs')].out = "notfound")
        => /\ _subscriptions' = _subscriptions
           /\ issued' = issued
           /\ waits' = waits]_vars

\* C15: the record the stream yields in the position of a slot whose fetch
\* failed with the 'skipped or missing' cause is the missing-block sentinel,
\* every other record yielded is the block of its own slot, and the stream
\* never raises for a slot whose fetch failed with that cause.
C15_SkippedYieldsSentinel ==
  /\ \A i \in DOMAIN out :
        LET s == startOpt + i - 1
        IN /\ s \in DOMAIN fetch
           /\ (fetch[s] = "skipped" <=> out[i].kind = "missing")
           /\ (fetch[s] # "skipped" => out[i] = BlockRecord(s, s))
  /\ spc = "failed" => fetch[slot] \in {"empty", "error"}

\* A bounded stream over three slots ended after it yielded a block, the
\* sentinel for the skipped second slot, and the block of the third slot.
C15_Witness ==
  /\ spc = "done"
  /\ endOpt = startOpt + 3
  /\ Len(out) = 3
  /\ out[1] = BlockRecord(startOpt, startOpt)
  /\ out[2] = MissingRecord
  /\ out[3] = BlockRecord(startOpt + 2, startOpt + 2)

\* C16: in snapshot mode with no explicit end the stream asks for the tip
\* once, when it opens; the answer becomes this.end and stays it whatever
\* the remote tip does; every record yielded stands for the next slot below
\* that end, and the stream ends when it has yielded start .. end-1.
C16_SnapshotFixesEnd ==
  [][(snapshot /\ endOpt = -1) =>
       /\ (spc' \in {"opening", "polling"} /\ spc' # spc) => spc = "init"
       /\ (spc = "opening" /\ spc' # "opening") => end' = tip
       /\ spc \notin {"init", "opening"} => end' = end
       /\ \A i \in DOMAIN out' :
             LET s == startOpt + i - 1
             IN /\ s < end'
                /\ out'[i] \in {BlockRecord(s, s), MissingRecord}
       /\ spc' = "done" =>
             Len(out') = IF end' > startOpt THEN end' - startOpt ELSE 0]_vars

\* A snapshot stream without an explicit end has ended after yielding every
\* slot below the tip it saw at open, while the remote tip has moved on.
C16_Witness ==
  /\ snapshot /\ endOpt = -1
  /\ spc = "done"
  /\ Len(out) = end - startOpt
  /\ Len(out) >= 2
  /\ tip > end

\* C17: in live mode no poll of the live-wait loop returns the tip that the
\* poll before it returned unless the stream slept between the two.
C17_UnchangedTipSleeps == live => ~polled.again

C19_TeardownEndsSubscriptions ==
  (ws = 0 \/ socks[ws].rs = 3) =>
    /\ \A sid \in SubIds : _subscriptions[sid] = 0
    /\ \A k \in DOMAIN subs : ~subs[k].listening

\* C20: for start <= end, getBlocks(start, end) requests exactly the blocks
\* start, start+1, ..., end-1, in that order, and when it returns it returns
\* those end - start blocks in that order (none when start equals end).
C20_EndIsExclusive ==
  (getBlocks.pc # "idle" /\ getBlocks.start <= getBlocks.end) =>
    /\ getBlocks.reqs = Range(getBlocks.start, getBlocks.end)
    /\ getBlocks.pc = "returned" =>
          /\ Len(getBlocks.out) = getBlocks.end - getBlocks.start
          /\ \A i \in DOMAIN getBlocks.out :
                getBlocks.out[i] = Block(getBlocks.start + i - 1)

\* The slots whose fetch the step launches.
Launched ==
  {s \in DOMAIN fetch' :
     /\ fetch'[s] = "pending"
     /\ (s \in DOMAIN fetch => fetch[s] # "pending")}

\* C21: every fetch launched for a slot other than the one the pull is
\* about to consume is for a slot below the fixed end when the stream has
\* one, and below the last-known tip when it has none.
C21_PrefetchBelowBound ==
  [][\A s \in Launched :
       s # start =>
         IF end' >= 0 THEN s < end' ELSE s < length']_vars

\* C22: the pull that consumes a slot raises exactly when the fetch of that
\* slot came back empty ('Block not available') or failed with a cause
\* other than 'skipped or missing' (that failure); the stream has then
\* yielded the slots before that one only, and yields nothing afterwards.
C22_FailureEndsStream ==
  [][/\ (spc = "awaiting" /\ spc' # "awaiting") =>
          (spc' = "failed" <=> fetch[slot] \in {"empty", "error"})
     /\ spc' = "failed" =>
          /\ serr' = IF fetch'[slot'] = "empty" THEN "Block not available"
                                               ELSE "fetch error"
          /\ Len(out') = slot' - startOpt
     /\ spc = "failed" => (spc' = "failed" /\ out' = out /\ serr' = serr)]_vars

\* The stream raised 'Block not available' for a slot after it had yielded
\* an earlier one, while the fetch of a later slot had already succeeded.
C22_Witness ==
  /\ spc = "failed"
  /\ serr = "Block not available"
  /\ Len(out) >= 1
  /\ \E s \in DOMAIN fetch : s > slot /\ fetch[s] = "ok"

\* C23: in live mode a poll that returns a tip other than the last-known
\* one is followed by no sleep: the tip is stored in this.length at once
\* and, when it has reached the cursor, the pull goes on to read the
\* cursor's slot.
C23_NewTipAdoptedAtOnce ==
  [][(/\ live
      /\ spc = "polling"
      /\ (spc' # spc \/ polled' # polled \/ length' # length)
      /\ tip # length)
     => /\ spc' # "sleeping"
        /\ length' = tip
        /\ start <= tip => (spc' = "awaiting" /\ slot' = start)]_vars

\* C24: every fetch is launched for a slot below cursor + W, so every
\* slot ever launched is below cursor + W; and a step that leaves the cursor
\* where it is (a fetch completing while the consumer does not pull)
\* launches only slots of that window that were never launched before.
C24_WindowThrottles ==
  [][/\ \A s \in Launched : s < start + concurrency
     /\ \A s \in DOMAIN fetch' : s < start' + concurrency
     /\ start' = start => \A s \in Launched : s \notin DOMAIN fetch]_vars

\* The consumer holds a record and has not pulled again; the window of two
\* slots ahead of the cursor is filled, every fetch of it has completed, one
\* of them with a failure, and nothing more is in flight.
C24_Witness ==
  /\ spc = "yielded"
  /\ concurrency = 2
  /\ {start, start + 1} \subseteq inflight
  /\ \A s \in DOMAIN fetch : fetch[s] # "pending"
  /\ \E s \in inflight : fetch[s] = "error"

\* C25: an entry leaves the prefetch cache only in the step in which the
\* cursor consumes its slot, and the cache never holds a key below the
\* cursor.
C25_CacheEntryLeavesAtConsume ==
  [][/\ \A s \in inflight \ inflight' : s = start /\ start' = start + 1
     /\ \A s \in inflight' : s >= start']_vars

\* C26: when a socket that this.ws no longer points to emits 'close', the
\* socket this.ws points to keeps the channel's internal listeners and the
\* keepalive interval is neither dropped nor stopped.
C26_StaleCloseLeavesNewer ==
  [][\A s \in DOMAIN socks :
       (/\ socks[s].rs # 3
        /\ socks'[s].rs = 3
        /\ ws # 0
        /\ s # ws)
       => /\ socks'[ws].hub = socks[ws].hub
          /\ _keepAlive' = _keepAlive
          /\ timers' = timers]_vars

\* C27: in the step in which a _connect run fails, this._connecting is
\* cleared, the channel is not connected, and no keepalive interval has
\* been started.
C27_FailedConnectClearsHandle ==
  [][\A a \in DOMAIN conns' :
       (/\ conns'[a].pc = "rejected"
        /\ a \in DOMAIN conns => conns[a].pc # "rejected")
       => /\ _connecting' = 0
          /\ ~_connected'
          /\ timers' = timers]_vars

\* C28: no fetch is ever launched for a slot for which a fetch was launched
\* before, whether that fetch is pending, has succeeded or has failed, and
\* whether its slot is still cached or was consumed.
C28_OneFetchPerSlot == refetched = {}

\* The stream has consumed a slot whose fetch failed as skipped, a fetch
\* completed out of order, and at least three slots have been fetched.
C28_Witness ==
  /\ jitter
  /\ Len(out) >= 2
  /\ \E s \in DOMAIN fetch : s < start /\ fetch[s] = "skipped"
  /\ Cardinality(DOMAIN fetch) >= 3

====
